---- MODULE Spec2Model ----
(***************************************************************************)
(* Model of the otel-mlflow-integration examples: the configuration        *)
(* loader (config.py), the three FastAPI services (1_fastapi_agent.py,     *)
(* 2_fastapi_agent.py, seed.py), and the three scripts                     *)
(* (0_simple_trace_test.py, 1_setup_uc_trace_table.py,                     *)
(* 3_run_databricks_chat_tests.py).                                        *)
(*                                                                         *)
(* Each program has its own specification over the same variables:         *)
(*   SpecConfig  config.py: import, then validate_config                   *)
(*   Spec        a web service: import, lifespan startup, requests         *)
(*   SpecSetup   1_setup_uc_trace_table.py: setup_uc_trace_table           *)
(*   SpecTrace   0_simple_trace_test.py: main                              *)
(*   SpecTests   3_run_databricks_chat_tests.py: main                      *)
(*   SpecStarted the services and the trace script together                *)
(*   SpecPrograms the services, the trace script and the setup script      *)
(* External libraries (MLflow, OpenTelemetry, OpenAI, httpx) are the       *)
(* environment: a call to one of them returns or raises, chosen with \E.   *)
(***************************************************************************)
EXTENDS Integers, Sequences, FiniteSets, TLC

VARIABLES
    environ,        \* os.environ: variable name -> Unset or Val(v)
    config,         \* the module-level configuration values of the program
    pc,             \* position of the script / import-startup phase of a service
    errors,         \* the list validate_config returned
    printed,        \* console output of a script, one tag per print group
    calls,          \* external calls issued by a script, in order
    ret,            \* outcome of the script's function
    experiment_id,  \* local of setup_uc_trace_table
    traces,         \* traces produced by the traced functions of the script
    idx,            \* loop index of the script's for loop
    variant,        \* which program runs: a service "v1", "v2", "seed";
                    \* "setup_uc"; "none" for the other scripts
    tracerProvider, \* OpenTelemetry's global tracer provider
    req,            \* per request: handler position, inputs, locals, response
    running         \* request whose handler occupies the event-loop thread, 0 if none

vars == <<environ, config, pc, errors, printed, calls, ret, experiment_id,
          traces, idx, variant, tracerProvider, req, running>>

scriptVars == <<errors, printed, calls, ret, experiment_id, traces, idx>>
serverVars == <<variant, tracerProvider, req, running>>

(***************************************************************************)
(* Text.  A string the code searches in is a sequence of characters; a     *)
(* string the code only passes on is a TLA+ string.                        *)
(***************************************************************************)
DefaultHost == <<"h","t","t","p","s",":","/","/","y","o","u","r","-","w","o","r","k","s","p","a","c","e",".","c","l","o","u","d",".","d","a","t","a","b","r","i","c","k","s",".","c","o","m">>
HostPlaceholder == <<"y","o","u","r","-","w","o","r","k","s","p","a","c","e">>
RealHost == <<"h","t","t","p","s",":","/","/","a","d","b","-","1",".","c","l","o","u","d",".","d","a","t","a","b","r","i","c","k","s",".","c","o","m">>
NearMissHost == <<"h","t","t","p","s",":","/","/","y","o","u","r","-","w","o","r","k","s","p","a","c",".","e","x","a","m","p","l","e",".","c","o","m">>
TailHost == <<"h","t","t","p","s",":","/","/","x",".","e","x","a","m","p","l","e",".","c","o","m","/","y","o","u","r","-","w","o","r","k","s","p","a","c","e">>
DatabricksUri == <<"d","a","t","a","b","r","i","c","k","s">>

\* Python's `needle in hay` on strings
Contains(needle, hay) ==
    \E i \in 0..(Len(hay) - Len(needle)) :
        \A j \in 1..Len(needle) : hay[i + j] = needle[j]

(***************************************************************************)
(* os.environ and os.getenv                                                *)
(***************************************************************************)
EnvNames == {"DATABRICKS_HOST", "DATABRICKS_TOKEN", "MLFLOW_TRACKING_URI",
             "MLFLOW_EXPERIMENT_NAME_BASIC", "MLFLOW_EXPERIMENT_NAME_OTEL",
             "MLFLOW_TRACING_SQL_WAREHOUSE_ID", "UC_CATALOG_NAME",
             "UC_SCHEMA_NAME", "OPENAI_API_KEY", "MLFLOW_EXPERIMENT_NAME",
             "MLFLOW_USE_DEFAULT_TRACER_PROVIDER"}

Unset == [set |-> FALSE]
Val(v) == [set |-> TRUE, v |-> v]

EmptyEnviron == [k \in EnvNames |-> Unset]

getenv(e, k, default) == IF e[k].set THEN e[k].v ELSE default

setenv(e, k, v) == [e EXCEPT ![k] = Val(v)]

NoConfig == [loaded |-> FALSE]

(***************************************************************************)
(* config.py                                                               *)
(***************************************************************************)
LoadConfig(e) ==
    LET host == getenv(e, "DATABRICKS_HOST", DefaultHost) IN
    [loaded |-> TRUE,
     DATABRICKS_HOST |-> host,
     DATABRICKS_TOKEN |-> getenv(e, "DATABRICKS_TOKEN", ""),
     MLFLOW_TRACKING_URI |-> getenv(e, "MLFLOW_TRACKING_URI", host),
     MLFLOW_EXPERIMENT_NAME_BASIC |->
         getenv(e, "MLFLOW_EXPERIMENT_NAME_BASIC",
                "/Users/your.email@company.com/otel-tracing-basic"),
     MLFLOW_EXPERIMENT_NAME_OTEL |->
         getenv(e, "MLFLOW_EXPERIMENT_NAME_OTEL",
                "/Workspace/Users/your.email@databricks.com/otel-tracing-otel"),
     MLFLOW_TRACING_SQL_WAREHOUSE_ID |->
         getenv(e, "MLFLOW_TRACING_SQL_WAREHOUSE_ID", "tttttttt336"),
     UC_CATALOG_NAME |-> getenv(e, "UC_CATALOG_NAME", "my_catalog"),
     UC_SCHEMA_NAME |-> getenv(e, "UC_SCHEMA_NAME", "my_schema"),
     OPENAI_API_KEY |-> getenv(e, "OPENAI_API_KEY", "")]

ErrToken == "DATABRICKS_TOKEN is not set"
ErrHost == "DATABRICKS_HOST needs to be set to your actual workspace"
ErrKey == "OPENAI_API_KEY is not set (only needed for OpenAI examples)"

\* validate_config with the host check moved in front of the token check
ValidateHostFirst(c) ==
    LET e1 == IF Contains(HostPlaceholder, c.DATABRICKS_HOST)
              THEN <<ErrHost>> ELSE <<>>
        e2 == IF c.DATABRICKS_TOKEN = "" THEN Append(e1, ErrToken) ELSE e1
        e3 == IF c.OPENAI_API_KEY = "" THEN Append(e2, ErrKey) ELSE e2
    IN  e3

\* validate_config(): errors = []; three independent ifs, each appending
validate_config(c) ==
    LET e1 == IF c.DATABRICKS_TOKEN = "" THEN <<ErrToken>> ELSE <<>>
        e2 == IF Contains(HostPlaceholder, c.DATABRICKS_HOST)
              THEN Append(e1, ErrHost) ELSE e1
        e3 == IF c.OPENAI_API_KEY = "" THEN Append(e2, ErrKey) ELSE e2
    IN  e3

\* the environments config.py is imported in (after load_dotenv)
ConfigTokens == {Unset, Val(""), Val("dapi-token")}
ConfigHosts == {Unset, Val(DefaultHost), Val(RealHost), Val(NearMissHost),
                Val(TailHost), Val(HostPlaceholder), Val(<<>>)}
ConfigKeys == {Unset, Val(""), Val("sk-key")}

ServerIdle ==
    /\ variant = "none"
    /\ tracerProvider = "proxy"
    /\ req = <<>>
    /\ running = 0

ScriptIdle ==
    /\ errors = <<>>
    /\ printed = <<>>
    /\ calls = <<>>
    /\ ret = "none"
    /\ experiment_id = "none"
    /\ traces = <<>>
    /\ idx = 0

InitConfig ==
    /\ \E t \in ConfigTokens, h \in ConfigHosts, k \in ConfigKeys :
          environ = [EmptyEnviron EXCEPT !["DATABRICKS_TOKEN"] = t,
                                         !["DATABRICKS_HOST"] = h,
                                         !["OPENAI_API_KEY"] = k]
    /\ config = NoConfig
    /\ pc = "import"
    /\ ScriptIdle
    /\ ServerIdle

\* import config: lines 9-45 run once
ImportConfig ==
    /\ pc = "import"
    /\ config' = LoadConfig(environ)
    /\ pc' = "loaded"
    /\ UNCHANGED <<environ, scriptVars, serverVars>>

\* a caller runs validate_config()
CallValidateConfig ==
    /\ pc = "loaded"
    /\ errors' = validate_config(config)
    /\ pc' = "validated"
    /\ UNCHANGED <<environ, config, printed, calls, ret, experiment_id, traces, idx,
                   serverVars>>

NextConfig == ImportConfig \/ CallValidateConfig

SpecConfig == InitConfig /\ [][NextConfig]_vars

(***************************************************************************)
(* C10: validate_config returns exactly one error for each of (token       *)
(* empty, host containing "your-workspace", API key empty), in that order, *)
(* and the empty list exactly when none of the three conditions holds.     *)
(***************************************************************************)
TokenEmpty == getenv(environ, "DATABRICKS_TOKEN", "") = ""
HostIsPlaceholder ==
    Contains(HostPlaceholder, getenv(environ, "DATABRICKS_HOST", DefaultHost))
KeyEmpty == getenv(environ, "OPENAI_API_KEY", "") = ""

Count(msg) == Cardinality({i \in 1..Len(errors) : errors[i] = msg})

ValidateConfigReportsEachMissingValue ==
    pc = "validated" =>
        /\ Count(ErrToken) = (IF TokenEmpty THEN 1 ELSE 0)
        /\ Count(ErrHost) = (IF HostIsPlaceholder THEN 1 ELSE 0)
        /\ Count(ErrKey) = (IF KeyEmpty THEN 1 ELSE 0)
        /\ Len(errors) = Count(ErrToken) + Count(ErrHost) + Count(ErrKey)
        /\ \A i, j \in 1..Len(errors) :
              /\ (errors[i] = ErrToken /\ errors[j] # ErrToken) => i < j
              /\ (errors[i] = ErrHost /\ errors[j] = ErrKey) => i < j
        /\ (errors = <<>>) <=> (~TokenEmpty /\ ~HostIsPlaceholder /\ ~KeyEmpty)

\* all three conditions hold at once and all three errors were reported
WitnessAllThreeErrors ==
    /\ pc = "validated"
    /\ TokenEmpty /\ HostIsPlaceholder /\ KeyEmpty
    /\ Len(errors) = 3

(***************************************************************************)
(* The web services: 1_fastapi_agent.py ("v1"), 2_fastapi_agent.py ("v2")  *)
(* and seed.py ("seed").                                                   *)
(***************************************************************************)
NumRequests == 2
Requests == 1..NumRequests

Variants == {"v1", "v2", "seed"}

ConfiguredEnviron ==
    [EmptyEnviron EXCEPT !["DATABRICKS_HOST"] = Val(RealHost),
                         !["DATABRICKS_TOKEN"] = Val("dapi-token"),
                         !["MLFLOW_EXPERIMENT_NAME_OTEL"] = Val("/Users/me/otel"),
                         !["OPENAI_API_KEY"] = Val("sk-key")]

ServerEnvirons == {EmptyEnviron, ConfiguredEnviron}

\* the HTTP surface the documentation lists
Surface == {<<"GET", "/">>, <<"POST", "/chat">>, <<"POST", "/rag/v1/answer">>,
            <<"POST", "/agent/task">>}

\* the routes of 2_fastapi_agent.py without POST /agent/task
RoutesWithoutAgentTask(v) ==
    IF v = "seed" THEN {<<"GET", "/">>, <<"POST", "/chat">>}
    ELSE Surface \ {<<"POST", "/agent/task">>}

\* the @app.get / @app.post decorators of each service
Routes(v) ==
    IF v = "seed" THEN {<<"GET", "/">>, <<"POST", "/chat">>}
    ELSE {<<"GET", "/">>, <<"POST", "/chat">>, <<"POST", "/rag/v1/answer">>,
          <<"POST", "/agent/task">>}

\* request bodies: not JSON, the empty object, an object with both fields
InvalidBody == [valid |-> FALSE]
Obj(q, t) == [valid |-> TRUE, query |-> q, task |-> t]
NoBody == [valid |-> FALSE, none |-> TRUE]
Bodies == {InvalidBody, Obj(Unset, Unset), Obj(Val("q1"), Val("t1"))}

\* body.get(key, default)
BodyGet(body, key, default) == IF body[key].set THEN body[key].v ELSE default

\* the completion API: a reply with a first choice and a usage, or an exception
Reply(c, n) == [ok |-> TRUE, content |-> c, total_tokens |-> n]
Raise == [ok |-> FALSE]
Replies == {Reply("a1", 12), Reply("a2", 34), Raise}

Model == "gpt-4o-mini"

Call(purpose, input, maxTokens) ==
    [model |-> Model, purpose |-> purpose, input |-> input, max_tokens |-> maxTokens]

\* span events, as the SDKs see them
Ev(sdk, op, name, value) == [sdk |-> sdk, op |-> op, name |-> name, value |-> value]
Start(sdk, name) == Ev(sdk, "start", name, "")
End(sdk, name) == Ev(sdk, "end", name, "")
Attr(name, key, value) == Ev("otel", "set_attribute", name, <<key, value>>)

\* str(trace.get_tracer_provider())
StrOfProvider(p) ==
    IF p = "sdk" THEN "<opentelemetry.sdk.trace.TracerProvider object>"
    ELSE "<opentelemetry.trace.ProxyTracerProvider object>"

NumDone == Cardinality({r \in DOMAIN req : req[r].pc = "done"})

\* a health payload that also reports how many requests were served
RootPayloadCounting(v) ==
    IF v = "v1"
    THEN [status |-> "ok", message |-> "OpenTelemetry + MLflow Tracing Agent",
          tracking_uri |-> config.MLFLOW_TRACKING_URI, served |-> NumDone]
    ELSE [status |-> "ok", otel_provider |-> StrOfProvider(tracerProvider),
          served |-> NumDone]

\* root()
RootPayload(v) ==
    IF v = "v1"
    THEN [status |-> "ok", message |-> "OpenTelemetry + MLflow Tracing Agent",
          tracking_uri |-> config.MLFLOW_TRACKING_URI]
    ELSE [status |-> "ok", otel_provider |-> StrOfProvider(tracerProvider)]

Ok(json) == [status |-> 200, json |-> json]
NotFound == [status |-> 404, json |-> [detail |-> "Not Found"]]
ServerError == [status |-> 500]
NoResponse == [status |-> 0]

IdleReq ==
    [pc |-> "idle", method |-> "", path |-> "", body |-> NoBody, arg |-> "",
     calls |-> <<>>, replies |-> <<>>, results |-> <<>>, spans |-> <<>>,
     response |-> NoResponse]

InitServer ==
    /\ environ \in ServerEnvirons
    /\ config = NoConfig
    /\ pc = "import"
    /\ ScriptIdle
    /\ variant \in Variants
    /\ tracerProvider = "proxy"
    /\ req = [r \in Requests |-> IdleReq]
    /\ running = 0

(***************************************************************************)
(* Import of the service module, then the lifespan startup.  `calls` logs  *)
(* the setup steps in the order they run.                                  *)
(***************************************************************************)
ImportModule ==
    /\ variant \in Variants
    /\ pc = "import"
    /\ config' = LoadConfig(environ)
    /\ IF variant = "v1"
       THEN /\ environ' = setenv(environ, "MLFLOW_USE_DEFAULT_TRACER_PROVIDER", "false")
            /\ calls' = <<"import mlflow", "import config",
                          "environ MLFLOW_USE_DEFAULT_TRACER_PROVIDER">>
            /\ UNCHANGED tracerProvider
       ELSE /\ environ' =
                 LET c == LoadConfig(environ)
                     e1 == setenv(environ, "DATABRICKS_HOST", c.DATABRICKS_HOST)
                     e2 == setenv(e1, "DATABRICKS_TOKEN", c.DATABRICKS_TOKEN)
                     e3 == setenv(e2, "MLFLOW_TRACKING_URI", DatabricksUri)
                     e4 == setenv(e3, "MLFLOW_EXPERIMENT_NAME",
                                  c.MLFLOW_EXPERIMENT_NAME_OTEL)
                 IN  setenv(e4, "MLFLOW_USE_DEFAULT_TRACER_PROVIDER", "false")
            /\ tracerProvider' = "sdk"
            /\ calls' = <<"import config", "environ DATABRICKS_HOST",
                          "environ DATABRICKS_TOKEN", "environ MLFLOW_TRACKING_URI",
                          "environ MLFLOW_EXPERIMENT_NAME",
                          "environ MLFLOW_USE_DEFAULT_TRACER_PROVIDER",
                          "set_tracer_provider", "import mlflow">>
    /\ pc' = "startup"
    /\ UNCHANGED <<errors, printed, ret, experiment_id, traces, idx, variant, req,
                   running>>

\* a lifespan that selects the experiment before the tracking URI is set
LifespanCallsExperimentFirst(v) ==
    IF v = "v1"
    THEN <<"set_experiment", "set_tracking_uri", "openai.autolog">>
    ELSE <<"set_experiment", "set_tracking_uri", "set_destination">>

\* the MLflow calls of lifespan before its yield, in order
LifespanCalls(v) ==
    IF v = "v1"
    THEN <<"set_tracking_uri", "set_experiment", "openai.autolog">>
    ELSE <<"set_tracking_uri", "set_destination", "set_experiment">>

\* lifespan up to its yield; the n-th MLflow call raises (n = 0: none does)
Lifespan ==
    /\ pc = "startup"
    /\ \E n \in 0..Len(LifespanCalls(variant)) :
          LET done == IF n = 0 THEN LifespanCalls(variant)
                      ELSE SubSeq(LifespanCalls(variant), 1, n)
              pre == IF variant = "v1"
                     THEN <<"environ DATABRICKS_HOST", "environ DATABRICKS_TOKEN">>
                     ELSE <<>>
          IN  /\ calls' = calls \o pre \o done
              /\ pc' = IF n = 0 THEN "serving" ELSE "startup_failed"
              /\ printed' = IF n = 0 THEN <<"configured">> ELSE <<>>
    /\ environ' = IF variant = "v1"
                  THEN setenv(setenv(environ, "DATABRICKS_HOST", config.DATABRICKS_HOST),
                              "DATABRICKS_TOKEN", config.DATABRICKS_TOKEN)
                  ELSE environ
    /\ UNCHANGED <<config, errors, ret, experiment_id, traces, idx, serverVars>>

(***************************************************************************)
(* Request handling.  The services run on one event-loop thread: a handler *)
(* runs from one `await` to the next without interruption.  The only await *)
(* of a handler is `await request.json()`; the OpenAI client is the        *)
(* synchronous one and is called without await, so the thread stays with   *)
(* the handler (running = r) until the call returns or raises.             *)
(***************************************************************************)
Serving == pc = "serving"

\* requests are numbered in the order they arrive
NextArrival(r) ==
    /\ Serving
    /\ req[r].pc = "idle"
    /\ IF r = 1 THEN TRUE ELSE req[r - 1].pc # "idle"
    /\ running = 0

\* a handler that also exports the API key to the process environment
HandlerFrameWritesEnviron ==
    /\ environ' = setenv(environ, "OPENAI_API_KEY", config.OPENAI_API_KEY)
    /\ UNCHANGED <<config, pc, scriptVars, variant, tracerProvider>>

\* no handler assigns module-level state
HandlerFrame == UNCHANGED <<environ, config, pc, scriptVars, variant, tracerProvider>>

\* chat() with the default of answer_question()
ChatQueryEmptyDefault(body) == BodyGet(body, "query", "")

ChatQuery(body) == BodyGet(body, "query", "Hello!")
RagQuery(body) == BodyGet(body, "query", "")
AgentTask(body) == BodyGet(body, "task", "")

Arg(path, body) ==
    IF path = "/chat" THEN ChatQuery(body)
    ELSE IF path = "/rag/v1/answer" THEN RagQuery(body)
    ELSE AgentTask(body)

\* a results list that lives at module level and is shared by all requests
SharedResults(r) ==
    LET others == {s \in Requests \ {r} : req[s].results # <<>>}
    IN  IF others = {} THEN <<>> ELSE req[CHOOSE s \in others : TRUE].results

\* results = []
NewResults(r) == <<>>

MlflowSpanName(path) ==
    IF path = "/chat" THEN "chat_completion"
    ELSE IF path = "/rag/v1/answer" THEN "rag_completion"
    ELSE "agent_execution"

\* the span of mlflow.openai.autolog() around one completion call
AutologStart == Start("mlflow", "Completions")
AutologEnd == End("mlflow", "Completions")

\* client.chat.completions.create is entered, returns, raises
CallEv == Ev("openai", "call", "chat.completions.create", "")
ReturnEv == Ev("openai", "return", "chat.completions.create", "")
RaiseEv == Ev("openai", "raise", "chat.completions.create", "")

\* span events from the start of the handler up to (and into) its first
\* completion call
SpansBeforeCall(v, path, arg) ==
    IF v = "v1" THEN <<AutologStart, CallEv>>
    ELSE <<Start("mlflow", MlflowSpanName(path)),
           Ev("mlflow", "set_inputs", MlflowSpanName(path), arg)>> \o
         (IF path = "/chat"
          THEN <<Start("otel", "openai_completion"),
                 Attr("openai_completion", "model", Model)>>
          ELSE IF path = "/rag/v1/answer"
          THEN <<Start("otel", "retrieval"), Attr("retrieval", "docs.count", 2),
                 End("otel", "retrieval"),
                 Start("otel", "build_context"),
                 Attr("build_context", "context.length", 106),
                 End("otel", "build_context"),
                 Start("otel", "llm_generation")>>
          ELSE <<Start("otel", "planning")>>) \o <<CallEv>>

OtelSpanOfCall(path, n) ==
    IF path = "/chat" THEN "openai_completion"
    ELSE IF path = "/rag/v1/answer" THEN "llm_generation"
    ELSE IF n = 1 THEN "planning" ELSE "execution"

\* the MLflow span entered without `with`: an exception leaves it open
SpansOnRaiseLeavesOpen(v, path, n) ==
    IF v = "v1" THEN <<RaiseEv, AutologEnd>>
    ELSE <<RaiseEv, End("otel", OtelSpanOfCall(path, n))>>

\* span events when the n-th completion call of the handler raises
SpansOnRaise(v, path, n) ==
    IF v = "v1" THEN <<RaiseEv, AutologEnd>>
    ELSE <<RaiseEv, End("otel", OtelSpanOfCall(path, n)),
           End("mlflow", MlflowSpanName(path))>>

\* the outputs recorded after the MLflow span was left
SpansAfterLastCallOutputsLate(v, path, n, reply) ==
    IF v = "v1" THEN <<ReturnEv, AutologEnd>>
    ELSE <<ReturnEv, Attr(OtelSpanOfCall(path, n), "tokens", reply.total_tokens),
           End("otel", OtelSpanOfCall(path, n)),
           End("mlflow", MlflowSpanName(path)),
           Ev("mlflow", "set_outputs", MlflowSpanName(path), reply.content)>>

\* span events after the last completion call returned `reply`
SpansAfterLastCall(v, path, n, reply) ==
    IF v = "v1" THEN <<ReturnEv, AutologEnd>>
    ELSE <<ReturnEv, Attr(OtelSpanOfCall(path, n), "tokens", reply.total_tokens),
           End("otel", OtelSpanOfCall(path, n)),
           Ev("mlflow", "set_outputs", MlflowSpanName(path), reply.content),
           End("mlflow", MlflowSpanName(path))>>

\* span events from the planning call returning up to (and into) the
\* execution call
SpansBetweenCalls(v, reply) ==
    IF v = "v1" THEN <<ReturnEv, AutologEnd, AutologStart, CallEv>>
    ELSE <<ReturnEv, Attr("planning", "tokens", reply.total_tokens),
           End("otel", "planning"), Start("otel", "execution"), CallEv>>

FirstCall(v, path, arg) ==
    IF path = "/chat" THEN Call("chat", arg, 150)
    ELSE IF path = "/rag/v1/answer" THEN Call("rag", arg, 200)
    ELSE Call("planning", arg, 150)

\* the dict the /chat handler returns
ChatResponse(v, query, reply) ==
    IF v = "v1"
    THEN [query |-> query, answer |-> reply.content, model |-> Model,
          tokens_used |-> reply.total_tokens]
    ELSE [query |-> query, answer |-> reply.content, model |-> Model]

\* the dict the /rag/v1/answer handler returns
RagResponse(v, query, reply) ==
    IF v = "v1"
    THEN [query |-> query, answer |-> reply.content, context_used |-> 2,
          model |-> Model]
    ELSE [query |-> query, answer |-> reply.content]

\* a response that reports the three steps the planning prompt asks for
AgentResponsePlannedSteps(v, task, results, reply) ==
    IF v = "v1"
    THEN [task |-> task, results |-> results, steps_completed |-> 3]
    ELSE [task |-> task, result |-> reply.content]

\* the dict the /agent/task handler returns
AgentResponse(v, task, results, reply) ==
    IF v = "v1"
    THEN [task |-> task, results |-> results, steps_completed |-> Len(results)]
    ELSE [task |-> task, result |-> reply.content]

\* GET /: root() has no await and runs to its return
Root(r) ==
    /\ NextArrival(r)
    /\ <<"GET", "/">> \in Routes(variant)
    /\ req' = [req EXCEPT ![r] = [@ EXCEPT !.pc = "done", !.method = "GET",
                                           !.path = "/",
                                           !.response = Ok(RootPayload(variant))]]
    /\ UNCHANGED running
    /\ HandlerFrame

\* a request the application has no route for: the framework answers 404
Unrouted(r) ==
    /\ NextArrival(r)
    /\ \E t \in Surface \ Routes(variant) :
          req' = [req EXCEPT ![r] = [@ EXCEPT !.pc = "done", !.method = t[1],
                                              !.path = t[2],
                                              !.response = NotFound]]
    /\ UNCHANGED running
    /\ HandlerFrame

\* a POST handler starts and suspends at `await request.json()`
StartHandler(r) ==
    /\ NextArrival(r)
    /\ \E t \in Routes(variant) \ {<<"GET", "/">>} :
          req' = [req EXCEPT ![r] = [@ EXCEPT !.pc = "await_body", !.method = t[1],
                                              !.path = t[2]]]
    /\ UNCHANGED running
    /\ HandlerFrame

\* the body arrived: the handler resumes, reads its field and runs up to
\* (and into) its first completion call
ReadBody(r) ==
    /\ Serving
    /\ req[r].pc = "await_body"
    /\ running = 0
    /\ \E b \in Bodies :
          IF ~b.valid
          THEN /\ req' = [req EXCEPT ![r] = [@ EXCEPT !.pc = "done", !.body = b,
                                                      !.response = ServerError]]
               /\ UNCHANGED running
          ELSE LET path == req[r].path
                   arg == Arg(path, b)
               IN  /\ req' = [req EXCEPT ![r] =
                        [@ EXCEPT !.pc = "completion", !.body = b, !.arg = arg,
                                  !.results = IF variant = "v1" /\ path = "/agent/task"
                                              THEN NewResults(r) ELSE <<>>,
                                  !.spans = SpansBeforeCall(variant, path, arg),
                                  !.calls = <<FirstCall(variant, path, arg)>>]]
                   /\ running' = r
    /\ HandlerFrame

\* the completion call of chat() / process_chat() returns or raises
ChatReturns(r) ==
    /\ Serving
    /\ req[r].pc = "completion"
    /\ req[r].path = "/chat"
    /\ running = r
    /\ \E reply \in Replies :
          req' = [req EXCEPT ![r] =
             IF reply.ok
             THEN [@ EXCEPT !.pc = "done", !.replies = <<reply>>,
                            !.spans = @ \o SpansAfterLastCall(variant, "/chat", 1, reply),
                            !.response = Ok(ChatResponse(variant, req[r].arg, reply))]
             ELSE [@ EXCEPT !.pc = "done", !.replies = <<reply>>,
                            !.spans = @ \o SpansOnRaise(variant, "/chat", 1),
                            !.response = ServerError]]
    /\ running' = 0
    /\ HandlerFrame

\* the completion call of answer_question() / process_rag() returns or raises
RagReturns(r) ==
    /\ Serving
    /\ req[r].pc = "completion"
    /\ req[r].path = "/rag/v1/answer"
    /\ running = r
    /\ \E reply \in Replies :
          req' = [req EXCEPT ![r] =
             IF reply.ok
             THEN [@ EXCEPT !.pc = "done", !.replies = <<reply>>,
                            !.spans = @ \o SpansAfterLastCall(variant, "/rag/v1/answer",
                                                             1, reply),
                            !.response = Ok(RagResponse(variant, req[r].arg, reply))]
             ELSE [@ EXCEPT !.pc = "done", !.replies = <<reply>>,
                            !.spans = @ \o SpansOnRaise(variant, "/rag/v1/answer", 1),
                            !.response = ServerError]]
    /\ running' = 0
    /\ HandlerFrame

\* the planning call of execute_task() / process_agent() returns or raises;
\* on return the handler goes straight into the execution call
PlanningReturns(r) ==
    /\ Serving
    /\ req[r].pc = "completion"
    /\ req[r].path = "/agent/task"
    /\ running = r
    /\ \E reply \in Replies :
          IF reply.ok
          THEN /\ req' = [req EXCEPT ![r] =
                    [@ EXCEPT !.pc = "completion2", !.replies = <<reply>>,
                              !.results = IF variant = "v1"
                                          THEN Append(@, [step |-> "planning",
                                                          output |-> reply.content])
                                          ELSE @,
                              !.spans = @ \o SpansBetweenCalls(variant, reply),
                              !.calls = Append(@, Call("execution", req[r].arg, 200))]]
               /\ UNCHANGED running
          ELSE /\ req' = [req EXCEPT ![r] =
                    [@ EXCEPT !.pc = "done", !.replies = <<reply>>,
                              !.spans = @ \o SpansOnRaise(variant, "/agent/task", 1),
                              !.response = ServerError]]
               /\ running' = 0
    /\ HandlerFrame

\* the execution call of execute_task() / process_agent() returns or raises
ExecutionReturns(r) ==
    /\ Serving
    /\ req[r].pc = "completion2"
    /\ running = r
    /\ \E reply \in Replies :
          LET results == IF variant = "v1"
                         THEN Append(req[r].results, [step |-> "execution",
                                                      output |-> reply.content])
                         ELSE req[r].results
          IN  req' = [req EXCEPT ![r] =
                 IF reply.ok
                 THEN [@ EXCEPT !.pc = "done", !.replies = Append(@, reply),
                                !.results = results,
                                !.spans = @ \o SpansAfterLastCall(variant, "/agent/task",
                                                                 2, reply),
                                !.response = Ok(AgentResponse(variant, req[r].arg,
                                                              results, reply))]
                 ELSE [@ EXCEPT !.pc = "done", !.replies = Append(@, reply),
                                !.spans = @ \o SpansOnRaise(variant, "/agent/task", 2),
                                !.response = ServerError]]
    /\ running' = 0
    /\ HandlerFrame

Next ==
    \/ ImportModule
    \/ Lifespan
    \/ \E r \in Requests : Root(r)
    \/ \E r \in Requests : Unrouted(r)
    \/ \E r \in Requests : StartHandler(r)
    \/ \E r \in Requests : ReadBody(r)
    \/ \E r \in Requests : ChatReturns(r)
    \/ \E r \in Requests : RagReturns(r)
    \/ \E r \in Requests : PlanningReturns(r)
    \/ \E r \in Requests : ExecutionReturns(r)

Spec == InitServer /\ [][Next]_vars

(***************************************************************************)
(* Properties of the web services                                          *)
(***************************************************************************)
Done(r) == req[r].pc = "done"
Target(r) == <<req[r].method, req[r].path>>
InCompletionCall(r) == req[r].pc \in {"completion", "completion2"}
AllOk(replies) == \A i \in 1..Len(replies) : replies[i].ok

(***************************************************************************)
(* C1: in every variant a POST /chat with a JSON object body whose         *)
(* completion call succeeds is answered with an object holding query (the  *)
(* request's query field, "Hello!" when absent), answer (the content of    *)
(* the first choice of the reply) and model ("gpt-4o-mini").               *)
(***************************************************************************)
ChatAnswersQueryAnswerModel ==
    \A r \in Requests :
        (/\ Done(r)
         /\ Target(r) = <<"POST", "/chat">>
         /\ req[r].body.valid
         /\ Len(req[r].replies) = 1
         /\ req[r].replies[1].ok)
        => /\ req[r].response.status = 200
           /\ {"query", "answer", "model"} \subseteq DOMAIN req[r].response.json
           /\ req[r].response.json.query =
                 (IF req[r].body.query.set THEN req[r].body.query.v ELSE "Hello!")
           /\ req[r].response.json.answer = req[r].replies[1].content
           /\ req[r].response.json.model = "gpt-4o-mini"

\* seed.py answered a /chat request that had no query field
WitnessChatDefaultQuery ==
    \E r \in Requests :
        /\ variant = "seed"
        /\ Done(r)
        /\ Target(r) = <<"POST", "/chat">>
        /\ req[r].body.valid /\ ~req[r].body.query.set
        /\ req[r].response.status = 200
        /\ req[r].response.json.answer = "a2"

(***************************************************************************)
(* C2 as stated: every variant (1_fastapi_agent, 2_fastapi_agent, seed)    *)
(* exposes GET /, POST /chat, POST /rag/v1/answer and POST /agent/task, so *)
(* no request to one of the four is answered "not found".                  *)
(***************************************************************************)
EveryVariantExposesWholeSurface ==
    /\ Serving => Surface \subseteq Routes(variant)
    /\ \A r \in Requests : Done(r) => req[r].response.status # 404

(***************************************************************************)
(* C2 amended: 1_fastapi_agent and 2_fastapi_agent expose the four         *)
(* endpoints; seed exposes GET / and POST /chat only, and a request to     *)
(* /rag/v1/answer or /agent/task of seed gets the framework's 404.         *)
(***************************************************************************)
SurfaceOfEachVariant ==
    \A r \in Requests :
        Done(r) =>
            ((req[r].response.status = 404)
                <=> (/\ variant = "seed"
                     /\ Target(r) \in {<<"POST", "/rag/v1/answer">>,
                                       <<"POST", "/agent/task">>}))

\* 2_fastapi_agent served a POST /agent/task
WitnessAgentTaskServed ==
    \E r \in Requests :
        /\ variant = "v2"
        /\ Done(r)
        /\ Target(r) = <<"POST", "/agent/task">>
        /\ req[r].response.status = 200

HandlerSuspendedDuringCompletion ==
    \A r \in Requests :
        InCompletionCall(r)
        => /\ running # r
           /\ \A s \in Requests \ {r} :
                 req[s].pc = "await_body" => ENABLED ReadBody(s)

(***************************************************************************)
(* C8: the response to a request is a function of the request's own body   *)
(* and of the replies to its own completion calls; the results list of     *)
(* /agent/task holds the entries of its own request only.                  *)
(***************************************************************************)
OwnResults(v, path, replies) ==
    IF v = "v1" /\ path = "/agent/task"
    THEN [i \in 1..Len(replies) |->
            [step |-> IF i = 1 THEN "planning" ELSE "execution",
             output |-> replies[i].content]]
    ELSE <<>>

OwnResponse(v, target, body, replies) ==
    IF target \notin Routes(v) THEN NotFound
    ELSE IF target = <<"GET", "/">> THEN Ok(RootPayload(v))
    ELSE IF ~body.valid \/ ~AllOk(replies) THEN ServerError
    ELSE IF target[2] = "/chat"
    THEN Ok(ChatResponse(v, BodyGet(body, "query", "Hello!"), replies[1]))
    ELSE IF target[2] = "/rag/v1/answer"
    THEN Ok(RagResponse(v, BodyGet(body, "query", ""), replies[1]))
    ELSE IF v = "v1"
    THEN Ok([task |-> BodyGet(body, "task", ""),
             results |-> OwnResults(v, target[2], replies),
             steps_completed |-> 2])
    ELSE Ok([task |-> BodyGet(body, "task", ""), result |-> replies[2].content])

ResponseDependsOnOwnRequestOnly ==
    \A r \in Requests :
        Done(r) =>
            /\ req[r].response = OwnResponse(variant, Target(r), req[r].body,
                                             req[r].replies)
            /\ AllOk(req[r].replies) =>
                  req[r].results = OwnResults(variant, req[r].path, req[r].replies)

\* two overlapping /agent/task requests of 1_fastapi_agent: request 1 started
\* first and is in its execution call, request 2 was served in the meantime
WitnessOverlappingAgentTasks ==
    /\ variant = "v1"
    /\ req[1].pc = "completion2"
    /\ req[1].path = "/agent/task"
    /\ Len(req[1].results) = 1
    /\ Done(2)
    /\ Target(2) = <<"POST", "/agent/task">>
    /\ req[2].response.status = 200
    /\ Len(req[2].response.json.results) = 2

\* the events of one SDK / one operation in a span log
StartsOf(spans, sdk) ==
    {i \in 1..Len(spans) : spans[i].sdk = sdk /\ spans[i].op = "start"}
EndsOf(spans, sdk) ==
    {i \in 1..Len(spans) : spans[i].sdk = sdk /\ spans[i].op = "end"}
OpsOf(spans, op) == {i \in 1..Len(spans) : spans[i].op = op}

\* the number of spans of `sdk` that are open after the first k events
OpenAt(spans, sdk, k) ==
    Cardinality({i \in StartsOf(spans, sdk) : i <= k})
        - Cardinality({i \in EndsOf(spans, sdk) : i <= k})

\* the names of the spans of a log, in the order they were opened
StartedNames(spans) ==
    LET starts == SelectSeq(spans, LAMBDA e : e.op = "start")
    IN  [k \in 1..Len(starts) |-> starts[k].name]

(***************************************************************************)
(* C11 as stated: every POST /chat request that 1_fastapi_agent handled    *)
(* (its handler reached the completion call) is traced twice: by a span of *)
(* the FastAPI instrumentation (an OpenTelemetry span for the request) and *)
(* by the span of the OpenAI call.                                         *)
(***************************************************************************)
ChatRequestAndCallBothTraced ==
    \A r \in Requests :
        (variant = "v1" /\ Done(r) /\ Target(r) = <<"POST", "/chat">>
            /\ req[r].calls # <<>>)
        => /\ StartsOf(req[r].spans, "otel") # {}
           /\ \E i \in StartsOf(req[r].spans, "mlflow") :
                 req[r].spans[i] = AutologStart

\* the requests of 2_fastapi_agent / seed whose handler entered its
\* process_* function
Processed == {r \in Requests : variant # "v1" /\ req[r].spans # <<>>}

\* the span that event i of the log closes is the last one opened and not
\* yet closed by the same SDK
ClosesLastOpened(spans, i) ==
    LET before == {j \in StartsOf(spans, spans[i].sdk) : j < i}
        last == CHOOSE j \in before : \A m \in before : m <= j
    IN  /\ before # {}
        /\ spans[last].name = spans[i].name
        /\ \A m \in EndsOf(spans, spans[i].sdk) : ~(last < m /\ m < i)

(***************************************************************************)
(* C14: in process_chat, process_rag and process_agent the spans of one    *)
(* request are properly nested and always closed: every OpenTelemetry span *)
(* starts after the request's MLflow span started and ends before it ends, *)
(* no two OpenTelemetry spans of the request are open at once, and when    *)
(* the function is left, by return or by a raising completion call, no     *)
(* span is open.                                                           *)
(***************************************************************************)
SpansNestedAndClosed ==
    \A r \in Processed :
        LET sp == req[r].spans
        IN  /\ \A k \in 0..Len(sp) :
                  /\ OpenAt(sp, "otel", k) \in {0, 1}
                  /\ OpenAt(sp, "mlflow", k) \in {0, 1}
                  /\ OpenAt(sp, "otel", k) <= OpenAt(sp, "mlflow", k)
            /\ \A i \in StartsOf(sp, "otel") : OpenAt(sp, "mlflow", i) = 1
            /\ \A i \in EndsOf(sp, "otel") :
                  OpenAt(sp, "mlflow", i) = 1 /\ ClosesLastOpened(sp, i)
            /\ \A i \in EndsOf(sp, "mlflow") : ClosesLastOpened(sp, i)
            /\ Cardinality(StartsOf(sp, "mlflow")) = 1
            /\ Done(r) => /\ OpenAt(sp, "otel", Len(sp)) = 0
                          /\ OpenAt(sp, "mlflow", Len(sp)) = 0

\* process_agent left by an exception of its execution call, after the
\* planning span was closed normally
WitnessAgentRaisedSpansClosed ==
    \E r \in Processed :
        /\ Done(r)
        /\ req[r].path = "/agent/task"
        /\ Len(req[r].replies) = 2
        /\ ~req[r].replies[2].ok
        /\ StartedNames(req[r].spans) = <<"agent_execution", "planning", "execution">>
        /\ OpenAt(req[r].spans, "otel", Len(req[r].spans)) = 0

\* the completion calls a process_* function makes when none raises
CallsOf(path) == IF path = "/agent/task" THEN 2 ELSE 1

\* the value the process_* function returned, as the handler put it into
\* its response
Returned(r) ==
    IF req[r].path = "/agent/task" THEN req[r].response.json.result
    ELSE req[r].response.json.answer

(***************************************************************************)
(* C15: in process_chat, process_rag and process_agent the inputs of the   *)
(* MLflow span are set before the first completion call is issued; the     *)
(* outputs are set only after the last completion call returned and before *)
(* the MLflow span ends; the value set as outputs is the value the         *)
(* function returns; when a completion call raises the outputs are never   *)
(* set.                                                                    *)
(***************************************************************************)
InputsBeforeCallsOutputsAfter ==
    \A r \in Processed :
        LET sp == req[r].spans
            outputs == OpsOf(sp, "set_outputs")
        IN  /\ \A i \in OpsOf(sp, "call") :
                  \E j \in OpsOf(sp, "set_inputs") :
                      j < i /\ sp[j].value = req[r].arg
            /\ \A j \in outputs :
                  /\ Cardinality({i \in OpsOf(sp, "return") : i < j})
                        = CallsOf(req[r].path)
                  /\ \A i \in OpsOf(sp, "call") : i < j
                  /\ OpenAt(sp, "mlflow", j) = 1
            /\ OpsOf(sp, "raise") # {} => outputs = {}
            /\ (Done(r) /\ req[r].response.status = 200) =>
                  /\ Cardinality(outputs) = 1
                  /\ \A j \in outputs : sp[j].value = Returned(r)

\* process_agent returned: both calls were answered and the outputs are
\* the content of the execution reply
WitnessAgentOutputsSet ==
    \E r \in Processed :
        /\ Done(r)
        /\ req[r].path = "/agent/task"
        /\ req[r].response.status = 200
        /\ req[r].replies[1].content # req[r].replies[2].content
        /\ \E j \in OpsOf(req[r].spans, "set_outputs") :
              req[r].spans[j].value = req[r].replies[2].content

\* the POST /agent/task requests of 1_fastapi_agent
AgentTasks ==
    {r \in Requests : variant = "v1" /\ Target(r) = <<"POST", "/agent/task">>}

(***************************************************************************)
(* C17: a successful POST /agent/task of 1_fastapi_agent makes exactly two *)
(* completion calls, planning then execution, the execution call issued    *)
(* only after the planning call returned; results is exactly the planning  *)
(* entry followed by the execution entry; steps_completed equals           *)
(* len(results), which is 2; task echoes the task field of the request     *)
(* ("" when absent).  When the planning call raises, no execution call is  *)
(* made.                                                                   *)
(***************************************************************************)
AgentTaskPlansThenExecutes ==
    \A r \in AgentTasks :
        LET q == req[r]
        IN  /\ \A k \in 1..Len(q.calls) :
                  q.calls[k].purpose = IF k = 1 THEN "planning" ELSE "execution"
            /\ Len(q.calls) <= 2
            /\ Cardinality(OpsOf(q.spans, "call")) = Len(q.calls)
            /\ Len(q.calls) = 2 => (Len(q.replies) >= 1 /\ q.replies[1].ok)
            /\ \A c1, c2 \in OpsOf(q.spans, "call") :
                  c1 < c2 => \E i \in OpsOf(q.spans, "return") : c1 < i /\ i < c2
            /\ (Len(q.replies) >= 1 /\ ~q.replies[1].ok) => Len(q.calls) = 1
            /\ (Done(r) /\ q.response.status = 200) =>
                  /\ Len(q.calls) = 2
                  /\ q.calls[1] = Call("planning", BodyGet(q.body, "task", ""), 150)
                  /\ q.calls[2] = Call("execution", BodyGet(q.body, "task", ""), 200)
                  /\ q.response.json.results
                        = <<[step |-> "planning", output |-> q.replies[1].content],
                            [step |-> "execution", output |-> q.replies[2].content]>>
                  /\ q.response.json.steps_completed
                        = Len(q.response.json.results)
                  /\ q.response.json.steps_completed = 2
                  /\ q.response.json.task = BodyGet(q.body, "task", "")

\* a task served with both calls answered, and one whose planning call
\* raised
WitnessAgentTaskBothOutcomes ==
    \E r, s \in AgentTasks :
        /\ Done(r) /\ req[r].response.status = 200
        /\ req[r].response.json.steps_completed = 2
        /\ Done(s) /\ req[s].response.status = 500
        /\ Len(req[s].replies) = 1 /\ Len(req[s].calls) = 1

(***************************************************************************)
(* 1_setup_uc_trace_table.py                                               *)
(***************************************************************************)
DefaultExperiment == <<"/","U","s","e","r","s","/","y","o","u","r",".","e","m","a","i","l","@","c","o","m","p","a","n","y",".","c","o","m","/","u","c","-","t","r","a","c","e","-","e","x","p","e","r","i","m","e","n","t">>
EmailPlaceholder == <<"y","o","u","r",".","e","m","a","i","l">>
UserExperiment == <<"/","U","s","e","r","s","/","m","e","/","u","c">>
OtherExperiment == <<"/","U","s","e","r","s","/","y","o","u","/","u","c">>

\* module level, lines 24-42
UcLoadConfig(e) ==
    [loaded |-> TRUE,
     SQL_WAREHOUSE_ID |-> getenv(e, "MLFLOW_TRACING_SQL_WAREHOUSE_ID", ""),
     UC_CATALOG_NAME |-> getenv(e, "UC_CATALOG_NAME", ""),
     UC_SCHEMA_NAME |-> getenv(e, "UC_SCHEMA_NAME", ""),
     EXPERIMENT_NAME |-> getenv(e, "MLFLOW_EXPERIMENT_NAME_OTEL", DefaultExperiment)]

\* validate_config() of 1_setup_uc_trace_table.py
uc_validate_config(c) ==
    LET e1 == IF c.SQL_WAREHOUSE_ID = ""
              THEN <<"MLFLOW_TRACING_SQL_WAREHOUSE_ID is not set">> ELSE <<>>
        e2 == IF c.UC_CATALOG_NAME = ""
              THEN Append(e1, "UC_CATALOG_NAME is not set") ELSE e1
        e3 == IF c.UC_SCHEMA_NAME = ""
              THEN Append(e2, "UC_SCHEMA_NAME is not set") ELSE e2
        e4 == IF Contains(EmailPlaceholder, c.EXPERIMENT_NAME)
              THEN Append(e3, "MLFLOW_EXPERIMENT_NAME_UC needs to be set to your actual experiment path")
              ELSE e3
    IN  e4

\* one external call and how it ended
Called(name, outcome) == [call |-> name, outcome |-> outcome]

InitSetup ==
    /\ \E w \in {Unset, Val(""), Val("wh-1")},
          c \in {Unset, Val("main")},
          s \in {Unset, Val("traces")},
          x \in {Unset, Val(DefaultExperiment), Val(UserExperiment),
                 Val(OtherExperiment)} :
          environ = [EmptyEnviron EXCEPT !["MLFLOW_TRACING_SQL_WAREHOUSE_ID"] = w,
                                         !["UC_CATALOG_NAME"] = c,
                                         !["UC_SCHEMA_NAME"] = s,
                                         !["MLFLOW_EXPERIMENT_NAME_OTEL"] = x]
    /\ config = NoConfig
    /\ pc = "import"
    /\ ScriptIdle
    /\ variant = "setup_uc"
    /\ tracerProvider = "proxy"
    /\ req = <<>>
    /\ running = 0

UcImport ==
    /\ variant = "setup_uc"
    /\ pc = "import"
    /\ config' = UcLoadConfig(environ)
    /\ pc' = "start"
    /\ UNCHANGED <<environ, scriptVars, serverVars>>

\* setup_uc_trace_table() from its first line to the call of
\* mlflow.set_tracking_uri (lines 71-89)
UcStart ==
    /\ pc = "start"
    /\ errors' = uc_validate_config(config)
    /\ IF uc_validate_config(config) # <<>>
       THEN /\ printed' = <<"banner", "Configuration errors">>
            /\ ret' = "None"
            /\ pc' = "returned"
            /\ UNCHANGED <<environ, calls>>
       ELSE /\ printed' = <<"banner">>
            /\ environ' = setenv(environ, "MLFLOW_TRACING_SQL_WAREHOUSE_ID",
                                 config.SQL_WAREHOUSE_ID)
            /\ calls' = <<Called("environ MLFLOW_TRACING_SQL_WAREHOUSE_ID", "ok")>>
            /\ pc' = "set_tracking_uri"
            /\ UNCHANGED ret
    /\ UNCHANGED <<config, experiment_id, traces, idx, serverVars>>

\* mlflow.set_tracking_uri returns or raises; the call is outside any try
UcTrackingUriReturns ==
    /\ pc = "set_tracking_uri"
    /\ \E o \in {"ok", "Exception"} :
          /\ calls' = Append(calls, Called("set_tracking_uri", o))
          /\ IF o = "ok"
             THEN /\ printed' = printed \o <<"Configuration", "Creating/retrieving experiment">>
                  /\ pc' = "create_experiment"
                  /\ UNCHANGED ret
             ELSE /\ ret' = "raised"
                  /\ pc' = "raised"
                  /\ UNCHANGED printed
    /\ UNCHANGED <<environ, config, errors, experiment_id, traces, idx, serverVars>>

\* mlflow.create_experiment returns an id or raises; only MlflowException is
\* caught (lines 99-102)
UcCreateReturns ==
    /\ pc = "create_experiment"
    /\ \E o \in {"ok", "MlflowException", "Exception"} :
          /\ calls' = Append(calls, Called("create_experiment", o))
          /\ IF o = "ok"
             THEN /\ experiment_id' = "created-id"
                  /\ printed' = printed \o <<"Created new experiment",
                                            "Linking experiment">>
                  /\ pc' = "link"
                  /\ UNCHANGED ret
             ELSE IF o = "MlflowException"
             THEN /\ pc' = "get_experiment_by_name"
                  /\ UNCHANGED <<experiment_id, printed, ret>>
             ELSE /\ ret' = "raised"
                  /\ pc' = "raised"
                  /\ UNCHANGED <<experiment_id, printed>>
    /\ UNCHANGED <<environ, config, errors, traces, idx, serverVars>>

\* a lookup whose None result is not checked: the function goes on to the
\* link with no experiment id
UcLookupFallsThrough ==
    /\ pc = "get_experiment_by_name"
    /\ \E o \in {"ok", "None", "MlflowException"} :
          /\ calls' = Append(calls, Called("get_experiment_by_name", o))
          /\ IF o = "ok"
             THEN /\ experiment_id' = "existing-id"
                  /\ printed' = printed \o <<"Using existing experiment",
                                            "Linking experiment">>
                  /\ pc' = "link"
                  /\ UNCHANGED ret
             ELSE IF o = "None"
             THEN /\ printed' = Append(printed, "Linking experiment")
                  /\ pc' = "link"
                  /\ UNCHANGED <<experiment_id, ret>>
             ELSE /\ ret' = "raised"
                  /\ pc' = "raised"
                  /\ UNCHANGED <<experiment_id, printed>>
    /\ UNCHANGED <<environ, config, errors, traces, idx, serverVars>>

\* mlflow.get_experiment_by_name, called inside the except block, returns an
\* experiment, returns None or raises (lines 103-109)
UcLookupReturns ==
    /\ pc = "get_experiment_by_name"
    /\ \E o \in {"ok", "None", "MlflowException"} :
          /\ calls' = Append(calls, Called("get_experiment_by_name", o))
          /\ IF o = "ok"
             THEN /\ experiment_id' = "existing-id"
                  /\ printed' = printed \o <<"Using existing experiment",
                                            "Linking experiment">>
                  /\ pc' = "link"
                  /\ UNCHANGED ret
             ELSE IF o = "None"
             THEN /\ printed' = Append(printed, "Failed to create or find experiment")
                  /\ ret' = "None"
                  /\ pc' = "returned"
                  /\ UNCHANGED experiment_id
             ELSE /\ ret' = "raised"
                  /\ pc' = "raised"
                  /\ UNCHANGED <<experiment_id, printed>>
    /\ UNCHANGED <<environ, config, errors, traces, idx, serverVars>>

\* set_experiment_trace_location returns or raises inside try/except Exception
\* (lines 113-132)
UcLinkReturns ==
    /\ pc = "link"
    /\ \E o \in {"ok", "Exception"} :
          /\ calls' = Append(calls, Called("set_experiment_trace_location", o))
          /\ IF o = "ok"
             THEN /\ printed' = printed \o <<"Successfully linked", "Trace Table Information">>
                  /\ ret' = "result"
             ELSE /\ printed' = Append(printed, "Failed to set trace location")
                  /\ ret' = "None"
    /\ pc' = "returned"
    /\ UNCHANGED <<environ, config, errors, experiment_id, traces, idx, serverVars>>

NextSetup ==
    \/ UcImport
    \/ UcStart
    \/ UcTrackingUriReturns
    \/ UcCreateReturns
    \/ UcLookupReturns
    \/ UcLinkReturns

SpecSetup == InitSetup /\ [][NextSetup]_vars

(***************************************************************************)
(* C4 as stated: setup_uc_trace_table never propagates an exception: each  *)
(* failure on its path (configuration, tracking URI, experiment creation,  *)
(* lookup by name, link) is caught and printed, and the function returns   *)
(* None.                                                                   *)
(***************************************************************************)
Failed(name) ==
    \E k \in 1..Len(calls) : calls[k].call = name /\ calls[k].outcome # "ok"
Succeeded(name) ==
    \E k \in 1..Len(calls) : calls[k].call = name /\ calls[k].outcome = "ok"

ErrorMessages == {"Configuration errors", "Failed to create or find experiment",
                  "Failed to set trace location"}

SetupNeverPropagates ==
    /\ ret # "raised"
    /\ (/\ pc = "returned"
        /\ \/ errors # <<>>
           \/ Failed("set_tracking_uri")
           \/ Failed("create_experiment") /\ ~Succeeded("get_experiment_by_name")
           \/ Failed("set_experiment_trace_location"))
       => (ret = "None" /\ printed[Len(printed)] \in ErrorMessages)

(***************************************************************************)
(* C13: setup_uc_trace_table runs its stages in the order validate, write  *)
(* MLFLOW_TRACING_SQL_WAREHOUSE_ID and set the tracking URI, create or     *)
(* retrieve the experiment, link; a stage is attempted only if the one     *)
(* before it succeeded.  When validate_config returns an error no          *)
(* environment variable is written and no MLflow call is made; the link is *)
(* attempted only with an experiment id (created, or found by name after   *)
(* the creation failed); a non-None result is returned only when the link  *)
(* succeeded.                                                              *)
(***************************************************************************)
WarehouseWrite == Called("environ MLFLOW_TRACING_SQL_WAREHOUSE_ID", "ok")

StagesRunInOrder ==
    /\ pc \in {"import", "start"} => calls = <<>>
    /\ errors # <<>> => calls = <<>>
    /\ calls # <<>> => /\ uc_validate_config(config) = <<>>
                       /\ calls[1] = WarehouseWrite
    /\ \A k \in 2..Len(calls) :
          /\ calls[k] # WarehouseWrite
          /\ calls[k].call = "set_tracking_uri" => calls[k - 1] = WarehouseWrite
          /\ calls[k].call = "create_experiment"
                => calls[k - 1] = Called("set_tracking_uri", "ok")
          /\ calls[k].call = "get_experiment_by_name"
                => calls[k - 1] = Called("create_experiment", "MlflowException")
          /\ calls[k].call = "set_experiment_trace_location"
                => /\ experiment_id # "none"
                   /\ \/ /\ calls[k - 1] = Called("create_experiment", "ok")
                         /\ experiment_id = "created-id"
                      \/ /\ calls[k - 1] = Called("get_experiment_by_name", "ok")
                         /\ experiment_id = "existing-id"
    /\ pc = "link" => experiment_id # "none"
    /\ ret = "result" =>
          calls[Len(calls)] = Called("set_experiment_trace_location", "ok")

\* the creation failed, the experiment was found by name and the link
\* succeeded
WitnessLinkedExistingExperiment ==
    /\ pc = "returned"
    /\ ret = "result"
    /\ experiment_id = "existing-id"
    /\ Failed("create_experiment")
    /\ Succeeded("set_experiment_trace_location")

(***************************************************************************)
(* 0_simple_trace_test.py                                                  *)
(***************************************************************************)
TraceEnvirons ==
    {EmptyEnviron,
     [EmptyEnviron EXCEPT !["DATABRICKS_HOST"] = Val(RealHost),
                          !["DATABRICKS_TOKEN"] = Val("dapi-token"),
                          !["MLFLOW_EXPERIMENT_NAME_BASIC"] = Val("/Users/me/basic")]}

MAttr(name, key, value) == Ev("mlflow", "set_attribute", name, <<key, value>>)

Trace(name, inputs, events, status) ==
    [name |-> name, inputs |-> inputs, events |-> events, status |-> status]

\* simple_function recording the product of its arguments as the result
simple_function_product(x, y, raised) ==
    Trace("simple_function", <<x, y>>,
          <<Start("mlflow", "add_numbers"),
            MAttr("add_numbers", "x", x), MAttr("add_numbers", "y", y)>> \o
          (IF raised THEN <<>> ELSE <<MAttr("add_numbers", "result", x * y)>>) \o
          <<End("mlflow", "add_numbers")>>,
          IF raised THEN "ERROR" ELSE "OK")

\* simple_function(x, y) under @mlflow.trace; when `raised` the body fails
\* after the inputs were recorded and the with block closes the span
simple_function(x, y, raised) ==
    Trace("simple_function", <<x, y>>,
          <<Start("mlflow", "add_numbers"),
            MAttr("add_numbers", "x", x), MAttr("add_numbers", "y", y)>> \o
          (IF raised THEN <<>> ELSE <<MAttr("add_numbers", "result", x + y)>>) \o
          <<End("mlflow", "add_numbers")>>,
          IF raised THEN "ERROR" ELSE "OK")

MultiStepNames == <<"parse_input", "process_data", "generate_result">>

\* the events of step k of multi_step_process; `raised`: the step fails
\* before its last set_attribute
StepEvents(k, raised) ==
    <<Start("mlflow", MultiStepNames[k])>> \o
    (IF k = 1 THEN <<MAttr("parse_input", "input_length", 30)>> ELSE <<>>) \o
    (IF raised THEN <<>>
     ELSE IF k = 1 THEN <<MAttr("parse_input", "word_count", 4)>>
     ELSE IF k = 2 THEN <<MAttr("process_data", "processed_count", 4)>>
     ELSE <<MAttr("generate_result", "result_keys",
                  <<"original", "processed", "word_count">>)>>) \o
    <<End("mlflow", MultiStepNames[k])>>

\* multi_step_process("hello world from opentelemetry") under @mlflow.trace;
\* step n raises (n = 0: none does), the steps after it do not run
multi_step_process(n) ==
    LET last == IF n = 0 THEN 3 ELSE n
        steps == [k \in 1..last |-> StepEvents(k, k = n)]
        Flat[k \in 0..last] == IF k = 0 THEN <<>> ELSE Flat[k - 1] \o steps[k]
    IN  Trace("multi_step_process", <<"hello world from opentelemetry">>,
              Flat[last], IF n = 0 THEN "OK" ELSE "ERROR")

InitTrace ==
    /\ environ \in TraceEnvirons
    /\ config = NoConfig
    /\ pc = "import"
    /\ ScriptIdle
    /\ ServerIdle

TraceImport ==
    /\ variant = "none"
    /\ pc = "import"
    /\ config' = LoadConfig(environ)
    /\ pc' = "main"
    /\ UNCHANGED <<environ, scriptVars, serverVars>>

\* a test whose exception is not caught: main ends with the exception
AfterTestUncaught(next, raised) == IF raised THEN "raised" ELSE next

\* try: ... except Exception: print; execution continues after the block
AfterTest(next, raised) == next

\* main() up to the end of setup_mlflow(); the call is outside any try, so
\* an MLflow call that raises ends main (n-th call raises, n = 0: none)
SetupMlflow ==
    /\ pc = "main"
    /\ environ' = setenv(setenv(environ, "DATABRICKS_HOST", config.DATABRICKS_HOST),
                         "DATABRICKS_TOKEN", config.DATABRICKS_TOKEN)
    /\ \E n \in 0..2 :
          /\ calls' = <<Called("environ DATABRICKS_HOST", "ok"),
                        Called("environ DATABRICKS_TOKEN", "ok")>> \o
                      (IF n = 1 THEN <<Called("set_tracking_uri", "Exception")>>
                       ELSE IF n = 2 THEN <<Called("set_tracking_uri", "ok"),
                                            Called("set_experiment", "Exception")>>
                       ELSE <<Called("set_tracking_uri", "ok"),
                              Called("set_experiment", "ok")>>)
          /\ IF n = 0
             THEN /\ printed' = <<"banner", "MLflow configured", "Test 1">>
                  /\ pc' = "test1"
                  /\ UNCHANGED ret
             ELSE /\ printed' = <<"banner">>
                  /\ pc' = "raised"
                  /\ ret' = "raised"
    /\ UNCHANGED <<config, errors, experiment_id, traces, idx, serverVars>>

\* Test 1: simple_function(5, 3) inside try/except Exception
Test1 ==
    /\ pc = "test1"
    /\ \E raised \in BOOLEAN :
          /\ calls' = Append(calls, Called("simple_function",
                                           IF raised THEN "Exception" ELSE "ok"))
          /\ traces' = Append(traces, simple_function(5, 3, raised))
          /\ printed' = printed \o (IF raised THEN <<"Error">>
                                    ELSE <<"Result", "Trace sent">>) \o <<"Test 2">>
          /\ pc' = AfterTest("test2", raised)
          /\ ret' = IF AfterTest("test2", raised) = "raised" THEN "raised" ELSE ret
    /\ UNCHANGED <<environ, config, errors, experiment_id, idx, serverVars>>

\* Test 2: multi_step_process(...) inside try/except Exception
Test2 ==
    /\ pc = "test2"
    /\ \E n \in 0..3 :
          /\ calls' = Append(calls, Called("multi_step_process",
                                           IF n # 0 THEN "Exception" ELSE "ok"))
          /\ traces' = Append(traces, multi_step_process(n))
          /\ printed' = printed \o (IF n # 0 THEN <<"Error">>
                                    ELSE <<"Result", "Trace with nested spans sent">>)
                                \o <<"Test 3">>
          /\ pc' = AfterTest("test3", n # 0)
          /\ ret' = IF AfterTest("test3", n # 0) = "raised" THEN "raised" ELSE ret
    /\ idx' = 0
    /\ UNCHANGED <<environ, config, errors, experiment_id, serverVars>>

\* Test 3: one iteration of `for i in range(3)`; the try encloses the loop,
\* so an exception ends the loop and execution continues after the block
Test3 ==
    /\ pc = "test3"
    /\ idx < 3
    /\ \E raised \in BOOLEAN :
          /\ calls' = Append(calls, Called("simple_function",
                                           IF raised THEN "Exception" ELSE "ok"))
          /\ traces' = Append(traces, simple_function(idx, idx + 1, raised))
          /\ IF raised
             THEN /\ printed' = Append(printed, "Error")
                  /\ pc' = AfterTest("banner", raised)
                  /\ ret' = IF AfterTest("banner", raised) = "raised"
                            THEN "raised" ELSE ret
                  /\ UNCHANGED idx
             ELSE /\ printed' = printed \o <<"Trace">> \o
                                (IF idx = 2 THEN <<"Multiple traces sent">> ELSE <<>>)
                  /\ idx' = idx + 1
                  /\ pc' = IF idx = 2 THEN "banner" ELSE "test3"
                  /\ UNCHANGED ret
    /\ UNCHANGED <<environ, config, errors, experiment_id, serverVars>>

\* the closing prints of main (lines 115-127)
TraceBanner ==
    /\ pc = "banner"
    /\ printed' = printed \o <<"Tests complete!", "Next steps", "Expected traces">>
    /\ ret' = "returned"
    /\ pc' = "done"
    /\ UNCHANGED <<environ, config, errors, calls, experiment_id, traces, idx,
                   serverVars>>

NextTrace == TraceImport \/ SetupMlflow \/ Test1 \/ Test2 \/ Test3 \/ TraceBanner

SpecTrace == InitTrace /\ [][NextTrace]_vars

(***************************************************************************)
(* C5 as stated: whichever of setup_mlflow, Test 1, Test 2 or Test 3       *)
(* raises, the tests after it still run and main ends having printed the   *)
(* "Tests complete!" banner.                                               *)
(***************************************************************************)
Printed(msg) == \E k \in 1..Len(printed) : printed[k] = msg
Attempted(name) == \E k \in 1..Len(calls) : calls[k].call = name
TraceTerminated == ~ENABLED NextTrace

MainAlwaysCompletes ==
    TraceTerminated =>
        /\ Printed("Tests complete!")
        /\ Attempted("simple_function")
        /\ Attempted("multi_step_process")

(***************************************************************************)
(* C5 amended: whichever of Test 1, Test 2 or Test 3 raises an Exception,  *)
(* the error is printed, the tests after it still run and main ends having *)
(* printed the "Tests complete!" banner; an exception raised by            *)
(* setup_mlflow is not caught: it ends main before any test has run and    *)
(* the banner is not printed.                                              *)
(***************************************************************************)
TestCalls == SelectSeq(calls, LAMBDA c : c.call \in {"simple_function",
                                                    "multi_step_process"})

MainContinuesAfterFailedTest ==
    /\ TraceTerminated => pc \in {"done", "raised"}
    /\ pc = "raised" => /\ Failed("set_tracking_uri") \/ Failed("set_experiment")
                        /\ TestCalls = <<>>
                        /\ ~Printed("Tests complete!")
    /\ pc = "done" => /\ Succeeded("set_experiment")
                      /\ Len(TestCalls) >= 3
                      /\ TestCalls[1].call = "simple_function"
                      /\ TestCalls[2].call = "multi_step_process"
                      /\ TestCalls[3].call = "simple_function"
                      /\ Printed("Tests complete!")
                      /\ Cardinality({k \in 1..Len(printed) : printed[k] = "Error"})
                            = Cardinality({k \in 1..Len(TestCalls) :
                                             TestCalls[k].outcome # "ok"})

\* all three tests raised and main still printed the banner
WitnessAllTestsFailed ==
    /\ pc = "done"
    /\ Len(TestCalls) = 3
    /\ \A k \in 1..3 : TestCalls[k].outcome = "Exception"
    /\ Printed("Tests complete!")

NoTestFailed == \A k \in 1..Len(calls) : calls[k].outcome = "ok"

(***************************************************************************)
(* C12: a run of main in which nothing fails produces exactly five traces, *)
(* in the order simple_function(5, 3), multi_step_process,                 *)
(* simple_function(0, 1), simple_function(1, 2), simple_function(2, 3);    *)
(* the multi_step_process trace has exactly the child spans parse_input,   *)
(* process_data, generate_result, each opened only after the one before    *)
(* was closed; every simple_function trace has exactly one add_numbers     *)
(* span, whose result attribute is x + y.                                  *)
(***************************************************************************)
MainProducesFiveTraces ==
    (pc = "done" /\ NoTestFailed) =>
        /\ Len(traces) = 5
        /\ [k \in 1..5 |-> traces[k].name]
              = <<"simple_function", "multi_step_process", "simple_function",
                  "simple_function", "simple_function">>
        /\ [k \in 1..5 |-> traces[k].inputs]
              = <<(<<5, 3>>), (<<"hello world from opentelemetry">>),
                  (<<0, 1>>), (<<1, 2>>), (<<2, 3>>)>>
        /\ StartedNames(traces[2].events)
              = <<"parse_input", "process_data", "generate_result">>
        /\ \A k \in 0..Len(traces[2].events) :
              OpenAt(traces[2].events, "mlflow", k) <= 1
        /\ OpenAt(traces[2].events, "mlflow", Len(traces[2].events)) = 0
        /\ \A t \in {1, 3, 4, 5} :
              LET ev == traces[t].events
                  results == {i \in 1..Len(ev) :
                                 /\ ev[i].op = "set_attribute"
                                 /\ ev[i].name = "add_numbers"
                                 /\ ev[i].value[1] = "result"}
              IN  /\ StartedNames(ev) = <<"add_numbers">>
                  /\ OpenAt(ev, "mlflow", Len(ev)) = 0
                  /\ Cardinality(results) = 1
                  /\ \A i \in results :
                        ev[i].value[2] = traces[t].inputs[1] + traces[t].inputs[2]

\* main ran to its banner and no traced function raised
WitnessFiveTracesSent ==
    /\ pc = "done"
    /\ NoTestFailed
    /\ Len(traces) = 5
    /\ Printed("Multiple traces sent")

(***************************************************************************)
(* 3_run_databricks_chat_tests.py                                          *)
(***************************************************************************)
CHAT_QUERIES ==
    <<"How does Databricks AutoML accelerate model development for both novice and experienced data scientists?",
      "What types of models can Databricks AutoML automatically train and tune?",
      "How does AutoML generate transparent, production-ready notebooks for further customisation?",
      "What features of AutoML help ensure reproducible and governed ML workflows within Unity Catalog?",
      "How does AutoML evaluate competing models and select the best candidate for deployment?">>

\* what a request of the script can come back with: no response at all (the
\* client raises), or a response whose body is not JSON, a JSON object with
\* an answer, with results, with neither, or a JSON number
HttpOutcomes == {"transport_error", "not_json", "json_answer", "json_results",
                 "json_other", "json_number"}

\* pretty_print_response: the lines it prints, and whether it raises
\* (`"answer" in data` raises TypeError when data is a number)
pretty_print_response(o) ==
    IF o = "not_json" THEN [lines |-> <<"title", "Status", "Non-JSON response">>,
                            raised |-> FALSE]
    ELSE IF o = "json_answer" THEN [lines |-> <<"title", "Status", "Answer">>,
                                    raised |-> FALSE]
    ELSE IF o = "json_results" THEN [lines |-> <<"title", "Status", "Results">>,
                                     raised |-> FALSE]
    ELSE IF o = "json_other" THEN [lines |-> <<"title", "Status", "Response JSON">>,
                                   raised |-> FALSE]
    ELSE [lines |-> <<"title", "Status">>, raised |-> TRUE]

Sent(method, path, json, outcome) ==
    [method |-> method, path |-> path, json |-> json, outcome |-> outcome]

InitTests ==
    /\ environ = EmptyEnviron
    /\ config = NoConfig
    /\ pc = "main"
    /\ ScriptIdle
    /\ ServerIdle

\* main() up to the end of the health check (lines 64-77)
HealthCheck ==
    /\ pc = "main"
    /\ \E o \in HttpOutcomes :
          /\ calls' = <<Sent("GET", "/", "", o)>>
          /\ IF o = "transport_error"
             THEN /\ printed' = <<"banner", "Health check failed">>
                  /\ ret' = "returned"
                  /\ pc' = "done"
             ELSE /\ printed' = <<"banner", "Health check", "Status">>
                  /\ pc' = "chat"
                  /\ UNCHANGED ret
    /\ idx' = 1
    /\ UNCHANGED <<environ, config, errors, experiment_id, traces, serverVars>>

\* a loop whose try encloses the for: a failed request ends the loop
NextQueryStopOnFailure(k, failed) == IF failed THEN Len(CHAT_QUERIES) + 1 ELSE k + 1

\* for i, query in enumerate(CHAT_QUERIES, 1): the try is inside the loop
NextQuery(k, failed) == k + 1

\* one iteration of the /chat loop (lines 80-88)
ChatTest ==
    /\ pc = "chat"
    /\ idx <= Len(CHAT_QUERIES)
    /\ \E o \in HttpOutcomes :
          LET failed == o = "transport_error" \/ pretty_print_response(o).raised
          IN  /\ calls' = Append(calls, Sent("POST", "/chat", CHAT_QUERIES[idx], o))
              /\ printed' = printed \o
                     (IF o = "transport_error" THEN <<>>
                      ELSE pretty_print_response(o).lines) \o
                     (IF failed THEN <<"Chat failed">> ELSE <<>>)
              /\ idx' = NextQuery(idx, failed)
    /\ UNCHANGED <<environ, config, pc, errors, ret, experiment_id, traces, serverVars>>

\* the closing prints of main (lines 90-93)
TestsBanner ==
    /\ pc = "chat"
    /\ idx > Len(CHAT_QUERIES)
    /\ printed' = Append(printed, "Databricks chat test suite complete.")
    /\ ret' = "returned"
    /\ pc' = "done"
    /\ UNCHANGED <<environ, config, errors, calls, experiment_id, traces, idx,
                   serverVars>>

NextTests == HealthCheck \/ ChatTest \/ TestsBanner

SpecTests == InitTests /\ [][NextTests]_vars

(***************************************************************************)
(* C6: the script first sends GET /; if that raises it sends no /chat      *)
(* request and returns; otherwise it sends exactly one POST /chat per      *)
(* entry of CHAT_QUERIES (five), in list order, whatever happens to the    *)
(* earlier chat requests, and then prints the completion banner.           *)
(***************************************************************************)
ChatSuiteSendsFixedRequests ==
    /\ Len(CHAT_QUERIES) = 5
    /\ Len(calls) >= 1 => (calls[1].method = "GET" /\ calls[1].path = "/")
    /\ \A k \in 2..Len(calls) :
          /\ calls[1].outcome # "transport_error"
          /\ calls[k].method = "POST"
          /\ calls[k].path = "/chat"
          /\ calls[k].json = CHAT_QUERIES[k - 1]
    /\ ~ENABLED NextTests =>
          /\ pc = "done"
          /\ ret = "returned"
          /\ IF calls[1].outcome = "transport_error"
             THEN Len(calls) = 1 /\ ~Printed("Databricks chat test suite complete.")
             ELSE /\ Len(calls) = 1 + Len(CHAT_QUERIES)
                  /\ printed[Len(printed)] = "Databricks chat test suite complete."

\* the first chat request failed in transport, the second could not be
\* printed, and all five were sent
WitnessChatFailuresDoNotStopSuite ==
    /\ pc = "done"
    /\ Len(calls) = 6
    /\ calls[2].outcome = "transport_error"
    /\ calls[3].outcome = "json_number"
    /\ calls[6].outcome = "json_answer"

(***************************************************************************)
(* C9: once startup has completed (the lifespan of a service reached its   *)
(* yield, setup_mlflow of the trace script returned), no step - no request *)
(* handler, no traced function - changes a configuration value or an       *)
(* environment variable.  Checked over the services and the trace script.  *)
(***************************************************************************)
InitStarted == InitServer \/ InitTrace
NextStarted == Next \/ NextTrace
SpecStarted == InitStarted /\ [][NextStarted]_vars

StartupComplete ==
    \/ Serving
    \/ variant = "none" /\ pc \in {"test1", "test2", "test3", "banner", "done"}

ConfigImmutableAfterStartup ==
    [][StartupComplete => (config' = config /\ environ' = environ)]_vars

\* a request was served after startup wrote DATABRICKS_HOST to the environment
WitnessServedAfterStartup ==
    /\ Serving
    /\ environ["DATABRICKS_HOST"].set
    /\ environ["MLFLOW_USE_DEFAULT_TRACER_PROVIDER"].set
    /\ \E r \in Requests : Done(r) /\ req[r].response.status = 200
                           /\ Len(req[r].replies) = 2

(***************************************************************************)
(* Trace setup of every program that makes MLflow calls: the three         *)
(* services, the trace script and the Unity Catalog setup script.          *)
(***************************************************************************)
InitPrograms == InitServer \/ InitTrace \/ InitSetup
NextPrograms == Next \/ NextTrace \/ NextSetup
SpecPrograms == InitPrograms /\ [][NextPrograms]_vars

\* the names of the setup steps taken so far, in order
StepNames ==
    IF variant \in Variants THEN calls
    ELSE [k \in 1..Len(calls) |-> calls[k].call]

MlflowCalls == {"set_tracking_uri", "set_destination", "set_experiment",
                "openai.autolog", "create_experiment", "get_experiment_by_name",
                "set_experiment_trace_location"}
CredentialWrites == {"environ DATABRICKS_HOST", "environ DATABRICKS_TOKEN"}

Happened(name) == \E k \in 1..Len(StepNames) : StepNames[k] = name

\* step b was taken only after step a
Before(a, b) ==
    \A k \in 1..Len(StepNames) :
        StepNames[k] = b => \E i \in 1..(k - 1) : StepNames[i] = a

CredentialsBeforeMlflow ==
    \A m \in MlflowCalls, w \in CredentialWrites : Before(w, m)

Explicit == variant \in {"v2", "seed"}

\* the order of the setup steps that C16 states for each program
TrackingUriFirst ==
    /\ Before("set_tracking_uri", "set_experiment")
    /\ Explicit => /\ Before("set_tracking_uri", "set_destination")
                   /\ Before("set_destination", "set_experiment")
    /\ Explicit => /\ Before("set_tracer_provider", "import mlflow")
                   /\ Before("environ MLFLOW_USE_DEFAULT_TRACER_PROVIDER",
                             "import mlflow")
                   /\ Happened("import mlflow") =>
                         /\ tracerProvider = "sdk"
                         /\ environ["MLFLOW_USE_DEFAULT_TRACER_PROVIDER"]
                               = Val("false")

\* no request handler and no traced function runs before setup finished
NoWorkBeforeSetup ==
    /\ variant \in Variants =>
          ((\E r \in Requests : req[r].pc # "idle") =>
              /\ pc = "serving"
              /\ \A k \in 1..Len(LifespanCalls(variant)) :
                    Happened(LifespanCalls(variant)[k]))
    /\ variant = "none" =>
          ((traces # <<>> \/ Happened("simple_function")
                          \/ Happened("multi_step_process")) =>
              /\ Succeeded("set_tracking_uri")
              /\ Succeeded("set_experiment"))

(***************************************************************************)
(* C16 as stated: in every script and every service DATABRICKS_HOST and    *)
(* DATABRICKS_TOKEN are written to the environment before the first MLflow *)
(* call; the tracking URI is set before the experiment (with the Unity     *)
(* Catalog destination between the two in 2_fastapi_agent); the explicit   *)
(* variant registers its tracer provider and sets                          *)
(* MLFLOW_USE_DEFAULT_TRACER_PROVIDER to "false" before MLflow is          *)
(* imported; no request handler or traced function runs before the setup   *)
(* has finished.                                                           *)
(***************************************************************************)
SetupOrderInEveryProgram ==
    /\ CredentialsBeforeMlflow
    /\ TrackingUriFirst
    /\ NoWorkBeforeSetup

(***************************************************************************)
(* C16 amended: the same order holds in the trace script and in every      *)
(* service; 1_setup_uc_trace_table.py writes neither DATABRICKS_HOST nor    *)
(* DATABRICKS_TOKEN: before its first MLflow call it writes only           *)
(* MLFLOW_TRACING_SQL_WAREHOUSE_ID, and it sets the tracking URI before    *)
(* it creates, looks up or links the experiment.                           *)
(***************************************************************************)
SetupOrderPerProgram ==
    /\ variant # "setup_uc" => CredentialsBeforeMlflow
    /\ variant = "setup_uc" =>
          /\ \A w \in CredentialWrites : ~Happened(w)
          /\ \A m \in MlflowCalls :
                Before("environ MLFLOW_TRACING_SQL_WAREHOUSE_ID", m)
          /\ \A m \in MlflowCalls \ {"set_tracking_uri"} :
                Before("set_tracking_uri", m)
    /\ TrackingUriFirst
    /\ NoWorkBeforeSetup

\* 2_fastapi_agent is in a completion call of its first request, after a
\* setup in which the destination was set between tracking URI and experiment
WitnessExplicitServiceSetUp ==
    /\ variant = "v2"
    /\ req[1].pc = "completion"
    /\ StepNames = <<"import config", "environ DATABRICKS_HOST",
                     "environ DATABRICKS_TOKEN", "environ MLFLOW_TRACKING_URI",
                     "environ MLFLOW_EXPERIMENT_NAME",
                     "environ MLFLOW_USE_DEFAULT_TRACER_PROVIDER",
                     "set_tracer_provider", "import mlflow", "set_tracking_uri",
                     "set_destination", "set_experiment">>

====
